---------------------------- MODULE Spec2Model ----------------------------
(***************************************************************************)
(* A model of the request-routing core of wordpress-playground:            *)
(*   - the messaging module (postMessageExpectReply / awaitReply),         *)
(*   - the service worker's fetch listener (initializeServiceWorker),      *)
(*   - broadcastMessageExpectReply, seemsLikeAPHPServerPath, parsePost,    *)
(*     cloneRequest.                                                       *)
(* Strings whose content the code inspects (URL paths, scope tokens) are   *)
(* sequences of one-character strings, so that startsWith / endsWith /     *)
(* includes / split are computed and not assumed.                          *)
(*                                                                         *)
(* One JavaScript context runs one event loop: a macrotask (an event       *)
(* dispatch, a timer, the completion of an I/O operation) runs to          *)
(* completion, then every pending microtask (promise continuation) runs    *)
(* before the next macrotask starts.                                       *)
(***************************************************************************)
EXTENDS Integers, Sequences, FiniteSets, TLC

VARIABLES
    lastRequestId,  \* messaging: the module-level counter
    issued,         \* history: the ids handed out, in the order handed out
    waiters,        \* one record per awaitReply() call, in call order
    controlled,     \* the browser contexts this service worker controls
    activated,      \* whether the activate event has been dispatched
    config,         \* the ServiceWorkerConfiguration passed to initializeServiceWorker
    events,         \* one record per fetch event, in dispatch order
    outbox,         \* history: every postMessage() call made, in order
    lateReplies,    \* history (page runs): the waiters a reply reached after they settled
    probe,          \* function runs: the last call made and what it returned
    php,            \* PHP runs: startPHP, the PHP instance and its streams
    unheard         \* history: the ids of replies dispatched before awaitReply was called for them

vars == <<lastRequestId, issued, waiters, controlled, activated, config,
          events, outbox, lateReplies, probe, php, unheard>>

-----------------------------------------------------------------------------
(* Bounds of the model *)

\* fetch events dispatched in one run of the service worker
MaxEvents == 2
\* direct postMessageExpectReply / getNextRequestId calls in one messaging run
MaxSends == 2
\* awaitReply calls in one messaging run
MaxWaiters == 2
\* path pieces a path of the function runs is made of
MaxPieces == 3

-----------------------------------------------------------------------------
(* Strings as sequences of characters *)

StartsWith(s, p) == Len(s) >= Len(p) /\ SubSeq(s, 1, Len(p)) = p

EndsWith(s, p) == Len(s) >= Len(p) /\ SubSeq(s, Len(s) - Len(p) + 1, Len(s)) = p

Includes(s, p) ==
    \E i \in 1..(Len(s) - Len(p) + 1) : SubSeq(s, i, i + Len(p) - 1) = p

\* String.prototype.split(sep) for a one-character separator: the pieces
\* between the separators, empty pieces included ("/a/" -> "", "a", "").
RECURSIVE SplitFrom(_, _, _, _)
SplitFrom(s, sep, i, cur) ==
    IF i > Len(s) THEN <<cur>>
    ELSE IF s[i] = sep THEN <<cur>> \o SplitFrom(s, sep, i + 1, <<>>)
    ELSE SplitFrom(s, sep, i + 1, Append(cur, s[i]))

Split(s, sep) == SplitFrom(s, sep, 1, <<>>)

\* Array.prototype.join(sep)
RECURSIVE Join(_, _)
Join(parts, sep) ==
    IF Len(parts) = 0 THEN <<>>
    ELSE IF Len(parts) = 1 THEN parts[1]
    ELSE parts[1] \o <<sep>> \o Join(Tail(parts), sep)

\* Array.prototype.slice(n): the elements from index n (0-based) on
Slice(parts, n) == SubSeq(parts, n + 1, Len(parts))

\* Array.prototype.pop(): the last element
Pop(parts) == parts[Len(parts)]

-----------------------------------------------------------------------------
(* Literals *)

Slash == "/"
DotPhp == <<".", "p", "h", "p">>
DotPhpSlash == <<".", "p", "h", "p", "/">>
ScopePrefix == <<"/", "s", "c", "o", "p", "e", ":">>

TokenAbc == <<"a", "b", "c">>
TokenXyz == <<"x", "y", "z">>
TokenWithColon == <<"a", ":", "b">>

\* getURLScope's "no scope" result (null)
Null == <<"null">>

PathIndexPhp == <<"/", "i", "n", "d", "e", "x", ".", "p", "h", "p">>
PathLogoPng == <<"/", "l", "o", "g", "o", ".", "p", "n", "g">>
PathRoot == <<"/">>
QueryP1 == <<"?", "p", "=", "1">>
NoText == <<>>

\* A URL: the parts of it the code reads (the origin is the same everywhere)
Url(pathname, search) == [pathname |-> pathname, search |-> search, hash |-> NoText]

-----------------------------------------------------------------------------
(* The scope codec and URL helpers imported by the service worker          *)
(* (../scope, ../utils): their files are not part of the sources at hand,  *)
(* so they follow the documented convention /scope:<token>/<path>.         *)

isURLScoped(url) == StartsWith(url.pathname, ScopePrefix)

\* the token of the leading segment "scope:<token>": what follows "scope:"
\* up to the next path separator; null on an unscoped URL
getURLScope(url) ==
    IF isURLScoped(url)
    THEN Slice(Split(url.pathname, Slash)[2], Len(ScopePrefix) - 1)
    ELSE Null

\* embeds the token as a new leading segment; a no-op on a scoped URL
setURLScope(url, scope) ==
    IF isURLScoped(url) THEN url
    ELSE [url EXCEPT !.pathname = ScopePrefix \o scope \o url.pathname]

\* Variant: the segment after the scope segment is stripped with it.
removeURLScopeAndNextSegment(url) ==
    IF ~isURLScoped(url) THEN url
    ELSE [url EXCEPT !.pathname =
              <<Slash>> \o Join(Slice(Split(url.pathname, Slash), 3), Slash)]

\* strips the leading scope segment; the identity on an unscoped URL
removeURLScope(url) ==
    IF ~isURLScoped(url) THEN url
    ELSE [url EXCEPT !.pathname =
              <<Slash>> \o Join(Slice(Split(url.pathname, Slash), 2), Slash)]

\* path + query + fragment of a URL
getPathQueryFragment(url) == url.pathname \o url.search \o url.hash

-----------------------------------------------------------------------------
(* The default forward heuristic *)

\* Variant: only the suffix is tested.
seemsLikeAPHPFileBySuffix(path) == EndsWith(path, DotPhp)

seemsLikeAPHPFile(path) == EndsWith(path, DotPhp) \/ Includes(path, DotPhpSlash)

seemsLikeADirectoryRoot(path) ==
    LET lastSegment == Pop(Split(path, Slash))
    IN  ~Includes(lastSegment, <<".">>)

seemsLikeAPHPServerPath(path) ==
    seemsLikeAPHPFile(path) \/ seemsLikeADirectoryRoot(path)

-----------------------------------------------------------------------------
(* Messages *)

\* The `response` payloads a reply may carry.  Undefined is a reply whose
\* `response` field is missing.
ResponseOk == [statusCode |-> 200, headers |-> <<>>, body |-> "hi"]
ResponseServerError == [statusCode |-> 500, headers |-> <<>>, body |-> "fatal"]
Undefined == [statusCode |-> -1, headers |-> <<>>, body |-> "undefined"]
Payloads == {ResponseOk, ResponseServerError, Undefined}

\* the value of a promise that has not been resolved
NoValue == [statusCode |-> -2, headers |-> <<>>, body |-> "no value"]

\* the type tags a message on the channel may carry
TypeTags == {"response", "HTTPRequest"}

\* event.data of a message event that reaches a channel: anything a peer may
\* post, whether or not it answers a request: a reply with any payload, or a
\* message of another type that happens to carry the id
InboundMessages(ids) ==
    [type : {"response"}, requestId : ids, response : Payloads]
    \cup [type : TypeTags \ {"response"}, requestId : ids, response : {Undefined}]

responseTo(requestId, response) ==
    [type |-> "response", requestId |-> requestId, response |-> response]

-----------------------------------------------------------------------------
(* messaging: postMessageExpectReply / getNextRequestId / awaitReply *)

\* Variant: the id is computed as lastRequestId + 1 and the counter is not
\* stored back.
IncrementNotStored(counter) == [counter |-> counter, value |-> counter + 1]

\* Variant: lastRequestId++, the value before the increment.
PostIncrement(counter) == [counter |-> counter + 1, value |-> counter]

\* ++lastRequestId: the counter as stored and the value of the expression
PreIncrement(counter) == [counter |-> counter + 1, value |-> counter + 1]

\* getNextRequestId() is imported by the service worker from ../messaging; the
\* messaging source at hand holds only the counter and postMessageExpectReply,
\* so it is modelled from its documented contract on the same counter.
getNextRequestId(counter) ==
    [counter |-> counter + 1, requestId |-> counter + 1]

\* The Promise settle functions: only the first call of either settles.
PromiseResolve(w, value) ==
    IF w.state = "pending"
    THEN [w EXCEPT !.state = "resolved", !.value = value,
                   !.resolveCalls = w.resolveCalls + 1]
    ELSE [w EXCEPT !.resolveCalls = w.resolveCalls + 1]

PromiseReject(w, error) ==
    IF w.state = "pending"
    THEN [w EXCEPT !.state = "rejected", !.error = error,
                   !.rejectCalls = w.rejectCalls + 1]
    ELSE [w EXCEPT !.rejectCalls = w.rejectCalls + 1]

\* the state an awaitReply(messageTarget, requestId, timeout) call sets up:
\* a pending promise, a running timer, a registered listener
NewWaiter(requestId, owner) ==
    [id |-> requestId, owner |-> owner,
     listening |-> TRUE, timer |-> TRUE,
     state |-> "pending", value |-> NoValue, error |-> "",
     resolveCalls |-> 0, rejectCalls |-> 0,
     seen |-> <<>>, by |-> <<>>]

\* Variant: the handler tests the type tag and not the id.
IsAnyReply(data, requestId) == data.type = "response"

\* the condition of responseHandler
IsReplyTo(data, requestId) ==
    data.type = "response" /\ data.requestId = requestId

\* Variant: the handler resolves without clearTimeout.
responseHandlerKeepsTimer(w, data) ==
    IF IsReplyTo(data, w.id)
    THEN LET removed == [w EXCEPT !.listening = FALSE]
             marked  == [removed EXCEPT !.by = Append(w.by, data)]
         IN  PromiseResolve(marked, data.response)
    ELSE w

\* Variant: the handler resolves without removeEventListener.
responseHandlerKeepsListener(w, data) ==
    IF IsReplyTo(data, w.id)
    THEN LET cleared == [w EXCEPT !.timer = FALSE]
             marked  == [cleared EXCEPT !.by = Append(w.by, data)]
         IN  PromiseResolve(marked, data.response)
    ELSE w

\* responseHandler(event), as invoked for a waiter whose listener is registered
responseHandler(w, data) ==
    IF IsReplyTo(data, w.id)
    THEN LET removed == [w EXCEPT !.listening = FALSE]       \* removeEventListener
             cleared == [removed EXCEPT !.timer = FALSE]     \* clearTimeout
             marked  == [cleared EXCEPT !.by = Append(w.by, data)]
         IN  PromiseResolve(marked, data.response)
    ELSE w

\* Variant: the timeout rejects without removeEventListener.
failOntimeoutKeepsListener(w) ==
    LET rejected == PromiseReject(w, "Request timed out")
    IN  [rejected EXCEPT !.timer = FALSE]

\* the failOntimeout callback
failOntimeout(w) ==
    LET rejected == PromiseReject(w, "Request timed out")
    IN  [rejected EXCEPT !.listening = FALSE, !.timer = FALSE]

\* What the channel saw, kept apart from what the handler did: the first
\* message answering the waiter's id that was dispatched while the call was
\* unsettled (`before` is the waiter when the dispatch starts).
Observe(before, after, data) ==
    IF before.state = "pending" /\ before.seen = <<>>
       /\ data.type = "response" /\ data.requestId = before.id
    THEN [after EXCEPT !.seen = <<data>>]
    ELSE after

\* One message event dispatched on the channel: every listener registered
\* when the dispatch starts is invoked.
Dispatch(ws, data) ==
    [i \in DOMAIN ws |->
        Observe(ws[i],
                IF ws[i].listening THEN responseHandler(ws[i], data) ELSE ws[i],
                data)]

\* postMessageExpectReply(target, message): the id it returns and the
\* message it posts
postMessageExpectReply(counter, target, message) ==
    LET incremented == PreIncrement(counter)
        requestId == incremented.value
    IN  [counter |-> incremented.counter,
         requestId |-> requestId,
         posted |-> [to |-> target, for |-> 0,
                     data |-> [type |-> message, requestId |-> requestId]]]

-----------------------------------------------------------------------------
(* The service worker: requests and configuration *)

\* the browser contexts that exist, in the order clients.matchAll() lists them
ClientOrder == <<"tab1", "tab2">>
Clients == {ClientOrder[i] : i \in DOMAIN ClientOrder}

\* shouldForwardRequestToPHPServer as passed in the configuration: left out
\* ("default"), or a predicate of the caller's (here one that forwards the
\* requests that carry a body, whatever their path)
Configurations == {"default", "postOnly"}

ScopedIndexPhp == Url(ScopePrefix \o TokenAbc \o PathIndexPhp, NoText)
ScopedLogoPng == Url(ScopePrefix \o TokenAbc \o PathLogoPng, NoText)
PlainIndexPhp == Url(PathIndexPhp, QueryP1)
PlainLogoPng == Url(PathLogoPng, NoText)
RefererScoped == Url(ScopePrefix \o TokenXyz \o PathRoot, NoText)
RefererPlain == Url(PathRoot, NoText)

Request(url, referer, method, body) ==
    [url |-> url, referer |-> referer, method |-> method, body |-> body]

\* The requests a page issues: scoped and unscoped URLs of both kinds of
\* path; the referer header absent (or not a URL), scoped with another token,
\* or unscoped; without a body, or with a body that is form data, a JSON
\* document, or text that is neither.
Requests ==
    { Request(ScopedIndexPhp, <<>>, "GET", "none"),
      Request(ScopedIndexPhp, <<RefererScoped>>, "POST", "json"),
      Request(ScopedLogoPng, <<RefererScoped>>, "GET", "none"),
      Request(PlainIndexPhp, <<>>, "GET", "none"),
      Request(PlainIndexPhp, <<RefererScoped>>, "POST", "text"),
      Request(PlainLogoPng, <<RefererScoped>>, "POST", "form"),
      Request(PlainLogoPng, <<RefererPlain>>, "GET", "none") }

-----------------------------------------------------------------------------
(* The service worker: the fetch listener's synchronous part *)

\* Variant: a scoped referer is consulted first and its token replaces the
\* URL's own.
ResolvedUrlRefererFirst(request) ==
    IF request.referer # <<>> /\ isURLScoped(request.referer[1])
    THEN setURLScope(removeURLScope(request.url), getURLScope(request.referer[1]))
    ELSE request.url

\* `url` after the scope inference at the top of the listener
ResolvedUrl(request) ==
    LET url == request.url
    IN  IF ~isURLScoped(url)
        THEN \* new URL(headers.get('referer') || '') throws for no referer
             IF request.referer # <<>> /\ isURLScoped(request.referer[1])
             THEN setURLScope(url, getURLScope(request.referer[1]))
             ELSE url
        ELSE url

\* Variant: the scope is not removed.
UnscopedUrlKeepsScope(request) == ResolvedUrl(request)

UnscopedUrl(request) == removeURLScope(ResolvedUrl(request))

\* Variant: the default heuristic is consulted as well as the predicate of
\* the configuration.
shouldForwardByDefaultToo(cfg, request, unscopedUrl) ==
    \/ seemsLikeAPHPServerPath(unscopedUrl.pathname)
    \/ cfg = "postOnly" /\ request.method = "POST"

shouldForwardRequestToPHPServer(cfg, request, unscopedUrl) ==
    CASE cfg = "default"  -> seemsLikeAPHPServerPath(unscopedUrl.pathname)
      [] cfg = "postOnly" -> request.method = "POST"

\* Variant: the predicate alone decides, whether or not a scope was resolved.
FetchBranchByPredicateAlone(cfg, request) ==
    LET url == ResolvedUrl(request)
        unscopedUrl == UnscopedUrl(request)
    IN  IF ~shouldForwardRequestToPHPServer(cfg, request, unscopedUrl)
        THEN IF isURLScoped(url) THEN "passthrough" ELSE "ignore"
        ELSE "forward"

\* Variant: an unscoped request is forwarded when its path looks like a PHP
\* server path.
FetchBranchForwardsUnscopedScripts(cfg, request) ==
    LET url == ResolvedUrl(request)
        unscopedUrl == UnscopedUrl(request)
    IN  IF ~isURLScoped(url)
        THEN IF seemsLikeAPHPServerPath(unscopedUrl.pathname)
             THEN "forward" ELSE "ignore"
        ELSE IF shouldForwardRequestToPHPServer(cfg, request, unscopedUrl)
             THEN "forward" ELSE "passthrough"

\* The unscoped URLs the forward predicate was called with: `||` does not
\* evaluate the call when the URL resolved to no scope.
PredicateArguments(request) ==
    IF ~isURLScoped(ResolvedUrl(request)) THEN <<>> ELSE <<UnscopedUrl(request)>>

\* which of its three exits the listener takes
FetchBranch(cfg, request) ==
    LET url == ResolvedUrl(request)
        unscopedUrl == UnscopedUrl(request)
    IN  IF ~isURLScoped(url)
           \/ ~shouldForwardRequestToPHPServer(cfg, request, unscopedUrl)
        THEN IF isURLScoped(url) THEN "passthrough" ELSE "ignore"
        ELSE "forward"

\* Variant: request.url || overrides.url
cloneRequestIgnoresOverride(request, url) == request

\* cloneRequest(request, {url}): overrides.url || request.url
cloneRequest(request, url) == [request EXCEPT !.url = url]

\* parsePost(request)
parsePost(request) ==
    IF request.method # "POST"
    THEN [ok |-> TRUE, post |-> "undefined", files |-> "undefined"]
    ELSE IF request.body = "form"
    THEN [ok |-> TRUE, post |-> "form fields", files |-> "form files"]
    ELSE IF request.body = "json"
    THEN [ok |-> TRUE, post |-> "json document", files |-> "{}"]
    ELSE [ok |-> FALSE, post |-> "undefined", files |-> "undefined"]

\* Variant: the path of the unscoped URL, as the debug line prints it.
RequestedPathUnscoped(request) == getPathQueryFragment(UnscopedUrl(request))

\* the path the forwarded message carries
RequestedPath(request) == getPathQueryFragment(ResolvedUrl(request))

\* the message the forward branch builds
BuildMessage(request) ==
    LET parsed == parsePost(request)
    IN  [type |-> "HTTPRequest",
         scope |-> getURLScope(ResolvedUrl(request)),
         request |-> [path |-> RequestedPath(request),
                      method |-> request.method,
                      files |-> parsed.files,
                      _POST |-> parsed.post,
                      headers |-> [referer |-> request.referer]]]

\* new Response(phpResponse.body, {headers, status})
NewResponse(phpResponse) ==
    [status |-> phpResponse.statusCode,
     headers |-> phpResponse.headers,
     body |-> phpResponse.body]

NoResponse == [status |-> 0, headers |-> <<>>, body |-> ""]

\* the state of a fetch event when its listener returns
NewEvent(cfg, request) ==
    LET branch == FetchBranch(cfg, request)
    IN  [request |-> request,
         pc |-> CASE branch = "ignore" -> "ignored"
                  [] branch = "passthrough" -> "cloning"
                  [] branch = "forward" -> "parsing",
         prevented |-> branch # "ignore",                   \* event.preventDefault()
         respond |-> IF branch = "ignore" THEN "none" ELSE "pending",  \* event.respondWith(promise)
         response |-> NoResponse,
         asked |-> PredicateArguments(request),
         refetch |-> <<>>,
         requestId |-> 0,
         waiter |-> 0]

-----------------------------------------------------------------------------
(* The event loop *)

Settled(w) == w.state # "pending"

\* request.blob() / request.formData() read the body: real I/O.  Without a
\* body to read, the awaited function returns at once and its caller resumes
\* in a microtask.
ReadsBodyToClone(request) == request.method \notin {"GET", "HEAD"}
ReadsBodyToParse(request) == request.method = "POST"

\* Variant: the executor resumes after the broadcast in a task of its own,
\* not in a microtask.
ContinuationQueuedButNotAfterBroadcast(e) ==
    \/ events[e].pc = "parsing" /\ ~ReadsBodyToParse(events[e].request)
    \/ events[e].pc = "cloning" /\ ~ReadsBodyToClone(events[e].request)
    \/ events[e].pc = "awaiting" /\ Settled(waiters[events[e].waiter])

\* a promise continuation of event e is queued as a microtask
ContinuationQueued(e) ==
    \/ events[e].pc = "parsing" /\ ~ReadsBodyToParse(events[e].request)
    \/ events[e].pc = "cloning" /\ ~ReadsBodyToClone(events[e].request)
    \/ events[e].pc = "posted"
    \/ events[e].pc = "awaiting" /\ Settled(waiters[events[e].waiter])

\* no macrotask starts while a microtask is queued
MicrotaskQueued == \E e \in DOMAIN events : ContinuationQueued(e)

-----------------------------------------------------------------------------
(* Actions shared by every context that uses the messaging module *)

\* a message event is dispatched on the channel awaitReply listens to
DispatchMessage(data) ==
    /\ ~MicrotaskQueued
    /\ waiters' = Dispatch(waiters, data)
    /\ UNCHANGED <<lastRequestId, issued, controlled, activated, config, probe, events, outbox, php>>

\* the timer of waiter i fires
Timeout(i) ==
    /\ ~MicrotaskQueued
    /\ waiters[i].timer
    /\ waiters' = [waiters EXCEPT ![i] = failOntimeout(waiters[i])]
    /\ UNCHANGED <<lastRequestId, issued, controlled, activated, config, probe, events, outbox,
                   lateReplies, php, unheard>>

-----------------------------------------------------------------------------
(* Actions of the service worker *)

\* a message event reaches the service worker's global scope
DeliverMessage(data) ==
    /\ DispatchMessage(data)
    /\ UNCHANGED <<lateReplies, unheard>>

\* Variant: the activate listener does not claim the clients.
ActivateWithoutClaim ==
    /\ ~activated
    /\ activated' = TRUE
    /\ UNCHANGED <<lastRequestId, issued, waiters, controlled, config, probe, events, outbox,
                   lateReplies, php, unheard>>

\* the activate listener: event.waitUntil(self.clients.claim())
Activate ==
    /\ ~activated
    /\ activated' = TRUE
    /\ controlled' = Clients
    /\ UNCHANGED <<lastRequestId, issued, waiters, config, probe, events, outbox, lateReplies, php, unheard>>

\* a controlled page issues a request: the fetch listener runs up to its
\* return
FetchEvent(request) ==
    /\ ~MicrotaskQueued
    /\ controlled # {}
    /\ Len(events) < MaxEvents
    /\ events' = Append(events, NewEvent(config, request))
    /\ UNCHANGED <<lastRequestId, issued, waiters, controlled, activated, config, probe, outbox,
                   lateReplies, php, unheard>>

\* passthrough: cloneRequest has returned; accept(fetch(newRequest))
CloneDone(e) ==
    /\ events[e].pc = "cloning"
    /\ ReadsBodyToClone(events[e].request) => ~MicrotaskQueued
    /\ events' = [events EXCEPT
           ![e].pc = "refetched",
           ![e].respond = "fetch",
           ![e].refetch = <<cloneRequest(events[e].request,
                                         UnscopedUrl(events[e].request))>>]
    /\ UNCHANGED <<lastRequestId, issued, waiters, controlled, activated, config, probe, outbox,
                   lateReplies, php, unheard>>

\* forward: parsePost has settled.  On success the message is built and
\* broadcastMessageExpectReply is entered: it draws the id and awaits
\* clients.matchAll().  parsePost is awaited outside the try block, so its
\* rejection ends the executor.
ParsePostDone(e) ==
    /\ events[e].pc = "parsing"
    /\ ReadsBodyToParse(events[e].request) => ~MicrotaskQueued
    /\ IF parsePost(events[e].request).ok
       THEN LET next == getNextRequestId(lastRequestId)
            IN  /\ lastRequestId' = next.counter
                /\ issued' = Append(issued, next.requestId)
                /\ events' = [events EXCEPT ![e].pc = "matching",
                                            ![e].requestId = next.requestId]
       ELSE /\ events' = [events EXCEPT ![e].pc = "threw"]
            /\ UNCHANGED <<lastRequestId, issued>>
    /\ UNCHANGED <<waiters, controlled, activated, config, probe, outbox, lateReplies, php, unheard>>

\* Variant: the message is posted to the first client listed only.
BroadcastPostsToFirstClient(e, message, requestId) ==
    LET targets == SelectSeq(ClientOrder, LAMBDA c : c \in controlled)
        first == IF targets = <<>> THEN <<>> ELSE <<Head(targets)>>
    IN  [i \in DOMAIN first |->
            [to |-> first[i], for |-> e,
             data |-> [type |-> message.type, scope |-> message.scope,
                       request |-> message.request, requestId |-> requestId]]]

\* the messages one broadcast posts: one per controlled client
BroadcastPosts(e, message, requestId) ==
    LET targets == SelectSeq(ClientOrder, LAMBDA c : c \in controlled)
    IN  [i \in DOMAIN targets |->
            [to |-> targets[i], for |-> e,
             data |-> [type |-> message.type, scope |-> message.scope,
                       request |-> message.request, requestId |-> requestId]]]

\* broadcastMessageExpectReply after clients.matchAll(): the message is posted
\* to every client and the id returned
MatchAllDone(e) ==
    /\ ~MicrotaskQueued
    /\ events[e].pc = "matching"
    /\ outbox' = outbox \o BroadcastPosts(e, BuildMessage(events[e].request),
                                          events[e].requestId)
    /\ events' = [events EXCEPT ![e].pc = "posted"]
    /\ UNCHANGED <<lastRequestId, issued, waiters, controlled, activated, config, probe, lateReplies, php, unheard>>

\* Variant: the executor awaits the module counter's current value.
AwaitedIdFromCounter(e) == lastRequestId

\* Variant: every executor awaits the first id the module handed out.
AwaitedIdFirstIssued(e) == issued[1]

\* the id the executor passes to awaitReply: its own `requestId`
AwaitedId(e) == events[e].requestId

\* the listener resumes with the id: awaitReply(self, requestId)
AwaitReplyStart(e) ==
    /\ events[e].pc = "posted"
    /\ waiters' = Append(waiters, NewWaiter(AwaitedId(e), e))
    /\ events' = [events EXCEPT ![e].pc = "awaiting",
                                ![e].waiter = Len(waiters) + 1]
    /\ UNCHANGED <<lastRequestId, issued, controlled, activated, config, probe, outbox, lateReplies, php, unheard>>

\* Variant: a forward that failed is started over.
ResumeAfterAwaitRetries(e) ==
    /\ events[e].pc = "awaiting"
    /\ Settled(waiters[events[e].waiter])
    /\ LET w == waiters[events[e].waiter]
       IN  IF w.state = "resolved" /\ w.value # Undefined
           THEN events' = [events EXCEPT ![e].pc = "answered",
                                         ![e].respond = "resolved",
                                         ![e].response = NewResponse(w.value)]
           ELSE events' = [events EXCEPT ![e].pc = "parsing"]
    /\ UNCHANGED <<lastRequestId, issued, waiters, controlled, activated, config, probe, outbox,
                   lateReplies, php, unheard>>

\* The executor after `await awaitReply(...)`.  A reply: the Response is built
\* from it and accepted; reading .body of a missing response throws.  A
\* timeout: the catch block logs and rethrows.  The executor is an async
\* function, so what it throws rejects the promise the executor returns, which
\* the Promise constructor drops; only accept() settles the promise given to
\* respondWith.
ResumeAfterAwait(e) ==
    /\ events[e].pc = "awaiting"
    /\ Settled(waiters[events[e].waiter])
    /\ LET w == waiters[events[e].waiter]
       IN  IF w.state = "resolved" /\ w.value # Undefined
           THEN events' = [events EXCEPT ![e].pc = "answered",
                                         ![e].respond = "resolved",
                                         ![e].response = NewResponse(w.value)]
           ELSE events' = [events EXCEPT ![e].pc = "threw"]
    /\ UNCHANGED <<lastRequestId, issued, waiters, controlled, activated, config, probe, outbox,
                   lateReplies, php, unheard>>

\* a controlled page is closed: clients.matchAll() no longer lists it
ClientGone(c) ==
    /\ ~MicrotaskQueued
    /\ activated
    /\ c \in controlled
    /\ controlled' = controlled \ {c}
    /\ UNCHANGED <<lastRequestId, issued, waiters, activated, config, events, outbox,
                   lateReplies, probe, php, unheard>>

\* the requests of the runs in which pages close
NavigationRequests ==
    { Request(ScopedIndexPhp, <<>>, "GET", "none"),
      Request(PlainLogoPng, <<RefererScoped>>, "POST", "form") }

\* A fetch event of the active worker whoever its client is: a navigation
\* request comes from a context that is not a client yet, so that the
\* listener may run while clients.matchAll() lists nobody.
Navigate(request) ==
    /\ ~MicrotaskQueued
    /\ activated
    /\ Len(events) < MaxEvents
    /\ events' = Append(events, NewEvent(config, request))
    /\ UNCHANGED <<lastRequestId, issued, waiters, controlled, activated, config, outbox,
                   lateReplies, probe, php, unheard>>

\* The engine behind a client that was posted a request answers it, as its
\* contract says: one well-formed reply carrying the id of the request.
EngineReplies(i, response) ==
    /\ outbox[i].for # 0
    /\ \A w \in DOMAIN waiters :
           waiters[w].id = outbox[i].data.requestId => waiters[w].by = <<>>
    /\ DispatchMessage(responseTo(outbox[i].data.requestId, response))
    /\ unheard' = unheard \cup
           (IF \E w \in DOMAIN waiters : waiters[w].id = outbox[i].data.requestId
            THEN {} ELSE {outbox[i].data.requestId})
    /\ UNCHANGED lateReplies

-----------------------------------------------------------------------------
(* Actions of a page that uses the messaging module directly *)

\* postMessageExpectReply(iframeWindow, {type: "get_php_version"})
Send ==
    /\ lastRequestId < MaxSends
    /\ LET sent == postMessageExpectReply(lastRequestId, "iframe", "get_php_version")
       IN  /\ lastRequestId' = sent.counter
           /\ issued' = Append(issued, sent.requestId)
           /\ outbox' = Append(outbox, sent.posted)
    /\ UNCHANGED <<waiters, controlled, activated, config, probe, events, lateReplies, php, unheard>>

\* getNextRequestId(), as a broadcast draws it
DrawId ==
    /\ lastRequestId < MaxSends
    /\ LET next == getNextRequestId(lastRequestId)
       IN  /\ lastRequestId' = next.counter
           /\ issued' = Append(issued, next.requestId)
    /\ UNCHANGED <<waiters, controlled, activated, config, probe, events, outbox, lateReplies, php, unheard>>

\* awaitReply(iframeWindow, requestId) for an id handed out before
Await(requestId) ==
    /\ Len(waiters) < MaxWaiters
    /\ waiters' = Append(waiters, NewWaiter(requestId, 0))
    /\ UNCHANGED <<lastRequestId, issued, controlled, activated, config, probe, events, outbox,
                   lateReplies, php, unheard>>

\* a message event reaches the page's channel
DeliverToPage(data) ==
    /\ DispatchMessage(data)
    /\ lateReplies' = lateReplies \cup
           {i \in DOMAIN waiters :
               /\ Settled(waiters[i])
               /\ data.type = "response"
               /\ data.requestId = waiters[i].id}
    /\ UNCHANGED unheard

-----------------------------------------------------------------------------
(* Runs of the pure functions: one call per run, its arguments drawn from   *)
(* bounded sets, the call and its result kept in `probe`                    *)

\* no PHP instance is being started
NoPHP == [pc |-> "none"]

NoCall == [fn |-> "none"]

\* path segments the paths of the function runs are made of
PathPieces ==
    { <<"/">>,
      <<"/", "i", "n", "d", "e", "x", ".", "p", "h", "p">>,
      <<"/", "i", "n", "d", "e", "x", ".", "h", "t", "m", "l">>,
      <<"/", "s", "t", "y", "l", "e", ".", "c", "s", "s">>,
      <<"/", "b", "l", "o", "g">>,
      <<"/", "e", "x", "t", "r", "a">>,
      <<"/", "s", "e", "g", "m", "e", "n", "t">>,
      <<"/", "f", "o", "o">>,
      <<"/", "b", "a", "r">>,
      <<"/", "a", ".", "p", "h", "p", "s">> }

RECURSIVE Concat(_)
Concat(pieces) ==
    IF pieces = <<>> THEN <<>> ELSE Head(pieces) \o Concat(Tail(pieces))

\* every path of one to MaxPieces pieces
Paths ==
    { Concat(pieces) : pieces \in UNION { [1..n -> PathPieces] : n \in 1..MaxPieces } }

\* seemsLikeAPHPServerPath(path)
CallSeemsLikeAPHPServerPath(path) ==
    /\ probe = NoCall
    /\ probe' = [fn |-> "seemsLikeAPHPServerPath", path |-> path,
                 result |-> seemsLikeAPHPServerPath(path)]
    /\ UNCHANGED <<lastRequestId, issued, waiters, controlled, activated, config,
                   events, outbox, lateReplies, php, unheard>>

\* the URLs and tokens handed to the scope codec
ScopeTokens == {TokenAbc, TokenXyz, <<"7">>, TokenWithColon, NoText}
CodecPaths ==
    { PathRoot, PathIndexPhp, PathLogoPng,
      <<"/", "b", "l", "o", "g", "/">>,
      <<"/", "/", "a">>,
      <<"/", "s", "c", "o", "p", "e">>,
      ScopePrefix \o TokenAbc \o PathIndexPhp,
      ScopePrefix \o TokenXyz \o PathRoot }
CodecUrls == { Url(pathname, search) : pathname \in CodecPaths, search \in {NoText, QueryP1} }

\* what setURLScope does with a URL that is scoped already
OnScopedChoices == {"no-op", "fails"}

\* setURLScope(url, scope), and the scoped URL read back with removeURLScope
\* and getURLScope. On a scoped URL the call either leaves the URL as it is
\* or fails, in which case there is no result to read back: result, removed
\* and read hold the value if there is one.
CallSetURLScope(url, scope, onScoped) ==
    /\ probe = NoCall
    /\ LET results == IF isURLScoped(url) /\ onScoped = "fails"
                      THEN <<>>
                      ELSE <<setURLScope(url, scope)>>
       IN  probe' = [fn |-> "setURLScope", url |-> url, scope |-> scope,
                     onScoped |-> onScoped,
                     result |-> results,
                     removed |-> [i \in DOMAIN results |->
                                      removeURLScope(results[i])],
                     read |-> [i \in DOMAIN results |->
                                   getURLScope(results[i])]]
    /\ UNCHANGED <<lastRequestId, issued, waiters, controlled, activated, config,
                   events, outbox, lateReplies, php, unheard>>

\* removeURLScope(url)
CallRemoveURLScope(url) ==
    /\ probe = NoCall
    /\ probe' = [fn |-> "removeURLScope", url |-> url, result |-> removeURLScope(url)]
    /\ UNCHANGED <<lastRequestId, issued, waiters, controlled, activated, config,
                   events, outbox, lateReplies, php, unheard>>

\* the origin every URL of the model has
Origin == <<"h", "t", "t", "p", ":", "/", "/", "w">>

\* new URL(text) for the referer header: <<url>>, or <<>> when it throws
\* (the empty text of a missing header, or text that is not a URL)
NewURL(text) ==
    IF StartsWith(text, Origin)
    THEN LET rest == SubSeq(text, Len(Origin) + 1, Len(text))
         IN  <<Url(IF rest = <<>> THEN PathRoot ELSE rest, NoText)>>
    ELSE <<>>

\* values of the referer header
RefererHeaders ==
    { <<>>,
      <<"n", "o", "n", "e">>,
      <<"/", "s", "c", "o", "p", "e", ":", "x", "y", "z", "/">>,
      Origin,
      Origin \o PathLogoPng,
      Origin \o ScopePrefix \o TokenXyz \o PathRoot,
      Origin \o ScopePrefix \o TokenAbc \o PathIndexPhp }

\* the synchronous part of the fetch listener for one request
CallFetchListener(cfg, url, header, method) ==
    /\ probe = NoCall
    /\ LET request == Request(url, NewURL(header), method, "none")
       IN  probe' = [fn |-> "fetch", cfg |-> cfg, request |-> request,
                     header |-> header,
                     url |-> ResolvedUrl(request),
                     unscopedUrl |-> UnscopedUrl(request),
                     scope |-> getURLScope(ResolvedUrl(request)),
                     branch |-> FetchBranch(cfg, request)]
    /\ UNCHANGED <<lastRequestId, issued, waiters, controlled, activated, config,
                   events, outbox, lateReplies, php, unheard>>

-----------------------------------------------------------------------------
(* Specifications *)

\* the ids a message on the channel may name: those handed out so far
ChannelIds == 1..lastRequestId

\* the service worker: a configuration is chosen when it is initialized
Init ==
    /\ lastRequestId = 0
    /\ issued = <<>>
    /\ waiters = <<>>
    /\ controlled = {}
    /\ activated = FALSE
    /\ config \in Configurations
    /\ events = <<>>
    /\ outbox = <<>>
    /\ lateReplies = {}
    /\ probe = NoCall
    /\ php = NoPHP
    /\ unheard = {}

Next ==
    \/ Activate
    \/ \E request \in Requests : FetchEvent(request)
    \/ \E e \in DOMAIN events : CloneDone(e)
    \/ \E e \in DOMAIN events : ParsePostDone(e)
    \/ \E e \in DOMAIN events : MatchAllDone(e)
    \/ \E e \in DOMAIN events : AwaitReplyStart(e)
    \/ \E e \in DOMAIN events : ResumeAfterAwait(e)
    \/ \E data \in InboundMessages(ChannelIds) : DeliverMessage(data)
    \/ \E i \in DOMAIN waiters : Timeout(i)

Spec == Init /\ [][Next]_vars

\* a page that sends requests and awaits replies with the messaging module
InitMessaging ==
    /\ lastRequestId = 0
    /\ issued = <<>>
    /\ waiters = <<>>
    /\ controlled = {}
    /\ activated = FALSE
    /\ config = "default"
    /\ events = <<>>
    /\ outbox = <<>>
    /\ lateReplies = {}
    /\ probe = NoCall
    /\ php = NoPHP
    /\ unheard = {}

NextMessaging ==
    \/ Send
    \/ DrawId
    \/ \E requestId \in 1..lastRequestId : Await(requestId)
    \/ \E data \in InboundMessages(ChannelIds) : DeliverToPage(data)
    \/ \E i \in DOMAIN waiters : Timeout(i)

SpecMessaging == InitMessaging /\ [][NextMessaging]_vars

\* runs of the pure functions
InitFunctions ==
    /\ lastRequestId = 0
    /\ issued = <<>>
    /\ waiters = <<>>
    /\ controlled = {}
    /\ activated = FALSE
    /\ config = "default"
    /\ events = <<>>
    /\ outbox = <<>>
    /\ lateReplies = {}
    /\ probe = NoCall
    /\ php = NoPHP
    /\ unheard = {}

NextFunctions ==
    \/ \E path \in Paths : CallSeemsLikeAPHPServerPath(path)
    \/ \E url \in CodecUrls, scope \in ScopeTokens, onScoped \in OnScopedChoices :
           CallSetURLScope(url, scope, onScoped)
    \/ \E url \in CodecUrls : CallRemoveURLScope(url)
    \/ \E cfg \in Configurations, url \in CodecUrls, header \in RefererHeaders,
          method \in {"GET", "POST"} :
           CallFetchListener(cfg, url, header, method)

SpecFunctions == InitFunctions /\ [][NextFunctions]_vars

\* the service worker while its pages close one after the other, the engines
\* keeping to their contract
NextBroadcast ==
    \/ Activate
    \/ \E c \in Clients : ClientGone(c)
    \/ \E request \in NavigationRequests : Navigate(request)
    \/ \E e \in DOMAIN events : CloneDone(e)
    \/ \E e \in DOMAIN events : ParsePostDone(e)
    \/ \E e \in DOMAIN events : MatchAllDone(e)
    \/ \E e \in DOMAIN events : AwaitReplyStart(e)
    \/ \E e \in DOMAIN events : ResumeAfterAwait(e)
    \/ \E i \in DOMAIN outbox : EngineReplies(i, ResponseOk)
    \/ \E i \in DOMAIN waiters : Timeout(i)

SpecBroadcast == Init /\ [][NextBroadcast]_vars

-----------------------------------------------------------------------------
(* startPHP and the PHP instance (specification SpecPHP)                    *)
(*                                                                          *)
(* `php` holds the locals of one startPHP call (the two promises, the       *)
(* monitor hook, the streams object) and afterwards the PHP instance built  *)
(* from them. Arrays are objects: the streams object and the results refer  *)
(* to them by their place in `heap`. The fields order, printed (during      *)
(* phpwasm_run), afterwards (during phpwasm_refresh) and atReturn record    *)
(* what happened and are read by no action; of the result before the last   *)
(* one only the stderr array is kept.                                       *)

\* data dependency modules handed to startPHP
MaxDataModules == 1
\* array objects alive at once: the two buffers and the stderr arrays of the
\* last two results
MaxArrays == 4

\* a chunk handed to print / printErr
Chunk == <<"h", "i">>

\* what a call into the runtime prints on one stream
Chunks == {<<>>, <<Chunk>>}

\* no run has returned yet
NoResult == [returned |-> FALSE]

\* Variant: depsReady is resolved whether or not data modules were given.
StartPHPWithoutDependencyWait(modules, userHook) ==
    [pc |-> "awaitDeps",
     modules |-> modules,
     userHook |-> userHook,
     hookRan |-> FALSE,
     depsReady |-> TRUE,
     phpReady |-> FALSE,
     monitor |-> TRUE,
     order |-> <<>>,
     heap |-> [a \in 1..MaxArrays |-> <<>>],
     stdout |-> 1,
     stderr |-> 2,
     last |-> NoResult,
     previous |-> NoResult]

\* startPHP up to its first await: both promises are pending, the streams
\* are two fresh empty arrays, the runtime is loaded with the hooks, every
\* data module is loaded into it, and depsReady is resolved at once when
\* there is no data module
StartPHP(modules, userHook) ==
    [pc |-> "awaitDeps",
     modules |-> modules,
     userHook |-> userHook,
     hookRan |-> FALSE,
     depsReady |-> (modules = 0),
     phpReady |-> FALSE,
     monitor |-> TRUE,
     order |-> <<>>,
     heap |-> [a \in 1..MaxArrays |-> <<>>],
     stdout |-> 1,
     stderr |-> 2,
     last |-> NoResult,
     previous |-> NoResult]

\* the promise startPHP is suspended on has been resolved: its continuation
\* is a queued microtask and runs before the runtime calls any hook
PHPContinuationQueued(p) ==
    \/ p.pc = "awaitDeps" /\ p.depsReady
    \/ p.pc = "awaitPhp" /\ p.phpReady

\* print: (...chunks) => streams.stdout.push(...chunks) and
\* printErr: (...chunks) => streams.stderr.push(...chunks)
Push(p, outs, errs) ==
    [p EXCEPT !.heap = [@ EXCEPT ![p.stdout] = @ \o outs,
                                 ![p.stderr] = @ \o errs]]

\* the array objects a result refers to
ArraysOf(result) == IF result.returned THEN {result.response.stderr} ELSE {}

\* the place of a new array object, away from the live ones
NewArray(live) == CHOOSE a \in 1..MaxArrays \ live :
                      \A b \in 1..MaxArrays \ live : a <= b

\* #refresh(): phpwasm_refresh, during which the runtime prints routs and
\* rerrs, then both buffers are replaced by new empty arrays. `held` are the
\* arrays the callers of run still refer to; the other replaced arrays are
\* gone.
refresh(p, routs, rerrs, held) ==
    LET flushed == Push(p, routs, rerrs)
        out == NewArray(held)
        err == NewArray(held \cup {out})
    IN [flushed EXCEPT
            !.heap = [a \in 1..MaxArrays |->
                          IF a \in held THEN flushed.heap[a] ELSE <<>>],
            !.stdout = out,
            !.stderr = err]

\* run(code): phpwasm_run, during which the runtime prints outs and errs;
\* the response takes the joined stdout chunks and the stderr array itself;
\* then #refresh()
run(p, exitCode, outs, errs, routs, rerrs) ==
    LET ran == Push(p, outs, errs)
        response == [exitCode |-> exitCode,
                     stdout |-> Join(ran.heap[ran.stdout], "\n"),
                     stderr |-> ran.stderr]
        held == {response.stderr} \cup ArraysOf(p.last)
        refreshed == refresh(ran, routs, rerrs, held)
    IN [refreshed EXCEPT
            !.previous = IF p.last.returned
                         THEN [returned |-> TRUE,
                               stderr |-> p.last.response.stderr,
                               atReturn |-> p.last.atReturn]
                         ELSE NoResult,
            !.last = [returned |-> TRUE,
                      response |-> response,
                      printed |-> [stdout |-> outs, stderr |-> errs],
                      afterwards |-> [stdout |-> routs, stderr |-> rerrs],
                      atReturn |-> refreshed.heap[response.stderr]]]

\* onRuntimeInitialized(): the caller's hook if there is one, then
\* resolvePhpReady()
OnRuntimeInitialized ==
    /\ php.pc \in {"awaitDeps", "awaitPhp"}
    /\ ~PHPContinuationQueued(php)
    /\ "runtime" \notin {php.order[i] : i \in DOMAIN php.order}
    /\ php' = [php EXCEPT !.hookRan = php.userHook,
                          !.phpReady = TRUE,
                          !.order = Append(@, "runtime")]
    /\ UNCHANGED <<lastRequestId, issued, waiters, controlled, activated,
                   config, events, outbox, lateReplies, probe, unheard>>

\* monitorRunDependencies(nbLeft): at 0 the hook removes itself and calls
\* resolveDepsReady()
MonitorRunDependencies(nbLeft) ==
    /\ php.pc \in {"awaitDeps", "awaitPhp"}
    /\ php.monitor
    /\ ~PHPContinuationQueued(php)
    /\ php' = IF nbLeft = 0
              THEN [php EXCEPT !.monitor = FALSE,
                               !.depsReady = TRUE,
                               !.order = Append(@, "dependencies")]
              ELSE php
    /\ UNCHANGED <<lastRequestId, issued, waiters, controlled, activated,
                   config, events, outbox, lateReplies, probe, unheard>>

\* await depsReady is over
ResumeAfterDepsReady ==
    /\ php.pc = "awaitDeps"
    /\ php.depsReady
    /\ php' = [php EXCEPT !.pc = "awaitPhp"]
    /\ UNCHANGED <<lastRequestId, issued, waiters, controlled, activated,
                   config, events, outbox, lateReplies, probe, unheard>>

\* await phpReady is over: new PHP(PHPRuntime, streams), whose constructor
\* writes php.ini and calls phpwasm_init_context, during which the runtime
\* prints outs and errs
ResumeAfterPhpReady(outs, errs) ==
    /\ php.pc = "awaitPhp"
    /\ php.phpReady
    /\ php' = [Push(php, outs, errs) EXCEPT !.pc = "ready"]
    /\ UNCHANGED <<lastRequestId, issued, waiters, controlled, activated,
                   config, events, outbox, lateReplies, probe, unheard>>

\* php.run(code) on the instance startPHP returned
Run(exitCode, outs, errs, routs, rerrs) ==
    /\ php.pc = "ready"
    /\ php' = run(php, exitCode, outs, errs, routs, rerrs)
    /\ UNCHANGED <<lastRequestId, issued, waiters, controlled, activated,
                   config, events, outbox, lateReplies, probe, unheard>>

InitPHP ==
    /\ lastRequestId = 0
    /\ issued = <<>>
    /\ waiters = <<>>
    /\ controlled = {}
    /\ activated = FALSE
    /\ config = "default"
    /\ events = <<>>
    /\ outbox = <<>>
    /\ lateReplies = {}
    /\ probe = NoCall
    /\ php \in {StartPHP(modules, userHook) :
                    modules \in 0..MaxDataModules, userHook \in BOOLEAN}
    /\ unheard = {}

NextPHP ==
    \/ OnRuntimeInitialized
    \/ \E nbLeft \in 0..MaxDataModules : MonitorRunDependencies(nbLeft)
    \/ ResumeAfterDepsReady
    \/ \E outs \in Chunks, errs \in Chunks : ResumeAfterPhpReady(outs, errs)
    \/ \E exitCode \in {0, 1}, outs \in Chunks, errs \in Chunks,
          routs \in Chunks, rerrs \in Chunks :
           Run(exitCode, outs, errs, routs, rerrs)

SpecPHP == InitPHP /\ [][NextPHP]_vars

-----------------------------------------------------------------------------
(* Properties of the service worker (specification Spec) *)

\* the events that were handed a correlation id
Forwarded == {e \in DOMAIN events : events[e].requestId # 0}

\* the broadcast posts made for event e
PostsFor(e) == {i \in DOMAIN outbox : outbox[i].for = e}

\* C1: every HTTP response the gateway returns for a fetch event is built
\* from a reply message that was dispatched while the event was waiting and
\* whose requestId is the id broadcast for that same event; no event is
\* answered from the reply to another event's request, or without a reply.
AnsweredOnlyByOwnReply ==
    \A e \in DOMAIN events :
        events[e].respond = "resolved" =>
            /\ events[e].waiter \in DOMAIN waiters
            /\ LET w == waiters[events[e].waiter]
               IN  /\ w.owner = e
                   /\ Len(w.by) = 1
                   /\ w.seen = w.by
                   /\ w.by[1].type = "response"
                   /\ w.by[1].requestId = events[e].requestId
                   /\ events[e].response = NewResponse(w.by[1].response)
            /\ PostsFor(e) # {}
            /\ \A i \in DOMAIN outbox :
                   (outbox[i].data.requestId = events[e].requestId) <=> (outbox[i].for = e)

\* Two forwards in flight, the one with the later id answered first.
AnsweredOutOfOrder ==
    \E e1, e2 \in DOMAIN events :
        /\ events[e1].respond = "resolved"
        /\ events[e2].pc = "awaiting"
        /\ waiters[events[e2].waiter].state = "pending"
        /\ events[e2].requestId < events[e1].requestId

\* C2: when a request is forwarded and no matching reply arrives before the
\* timeout fires, the promise handed to respondWith is rejected: once the
\* timer has rejected the wait and the executor has run to its end, the
\* promise is neither pending nor resolved.
TimedOutForwardIsRejected ==
    \A e \in DOMAIN events :
        ( /\ events[e].pc = "threw"
          /\ events[e].waiter # 0
          /\ waiters[events[e].waiter].state = "rejected" )
        => events[e].respond = "rejected"

\* C4: the listeners (and timers) still registered are exactly those of the
\* awaitReply calls that have not settled; a forward that timed out has left
\* no listener and no timer behind.
ListenersAreTheUnsettledCalls ==
    /\ \A i \in DOMAIN waiters :
           /\ waiters[i].listening <=> (waiters[i].state = "pending")
           /\ waiters[i].timer <=> (waiters[i].state = "pending")
    /\ \A e \in DOMAIN events :
           (events[e].pc = "threw" /\ events[e].waiter # 0) =>
               /\ ~waiters[events[e].waiter].listening
               /\ ~waiters[events[e].waiter].timer

\* One forward has timed out and the executor has ended, while another
\* forward's wait is still registered.
TimedOutAnsweredAndWaiting ==
    /\ \E e \in DOMAIN events :
           /\ events[e].pc = "threw"
           /\ events[e].waiter # 0
           /\ waiters[events[e].waiter].state = "rejected"
    /\ \E i \in DOMAIN waiters : waiters[i].state = "pending" /\ waiters[i].listening

ScopedIndexPhpText ==
    <<"/", "s", "c", "o", "p", "e", ":", "a", "b", "c",
      "/", "i", "n", "d", "e", "x", ".", "p", "h", "p">>

\* C8 as stated: the broadcast message has type "HTTPRequest", the resolved
\* scope, the request's method, and request.path equal to the path+query+
\* fragment of the URL with the scope segment removed ("/index.php").
ForwardedPathIsUnscoped ==
    \A i \in DOMAIN outbox :
        outbox[i].for # 0 =>
            LET request == events[outbox[i].for].request
                data == outbox[i].data
            IN  /\ data.type = "HTTPRequest"
                /\ data.request.method = request.method
                /\ ~StartsWith(data.request.path, ScopePrefix)
                /\ request.url = ScopedIndexPhp => data.request.path = PathIndexPhp

\* C8, amended: the broadcast message has type "HTTPRequest", the id drawn
\* for the event, the resolved scope and the request's method, and
\* request.path is the path+query+fragment of the resolved URL, scope segment
\* included ("/scope:abc/index.php"); a reply {200, {}, "hi"} for that id
\* yields an HTTP response with status 200 and body "hi".
ForwardedPathKeepsScope ==
    /\ \A i \in DOMAIN outbox :
           outbox[i].for # 0 =>
               LET e == outbox[i].for
                   request == events[e].request
                   data == outbox[i].data
               IN  /\ data.type = "HTTPRequest"
                   /\ data.requestId = events[e].requestId
                   /\ data.scope = (IF StartsWith(request.url.pathname, ScopePrefix)
                                    THEN TokenAbc ELSE TokenXyz)
                   /\ data.request.method = request.method
                   /\ data.request.path =
                          (IF StartsWith(request.url.pathname, ScopePrefix)
                           THEN request.url.pathname
                           ELSE ScopePrefix \o TokenXyz \o request.url.pathname)
                          \o request.url.search
                   /\ request.url = ScopedIndexPhp =>
                          /\ data.scope = TokenAbc
                          /\ data.request.path = ScopedIndexPhpText
    /\ \A e \in DOMAIN events :
           ( /\ events[e].respond = "resolved"
             /\ waiters[events[e].waiter].by =
                    <<responseTo(events[e].requestId, ResponseOk)>> )
           => /\ events[e].response.status = 200
              /\ events[e].response.body = "hi"
              /\ events[e].response.headers = <<>>

\* GET /scope:abc/index.php was forwarded and answered 200 "hi".
ScopedIndexAnswered ==
    \E e \in DOMAIN events :
        /\ events[e].request = Request(ScopedIndexPhp, <<>>, "GET", "none")
        /\ \E i \in PostsFor(e) : outbox[i].data.request.path = ScopedIndexPhpText
        /\ events[e].respond = "resolved"
        /\ events[e].response.status = 200
        /\ events[e].response.body = "hi"

\* the unscoped path of each request URL of the model
PlainPathOf(url) ==
    CASE url = ScopedIndexPhp -> PathIndexPhp
      [] url = ScopedLogoPng -> PathLogoPng
      [] OTHER -> url.pathname

\* the scope a request resolves to
ResolvesToScope(request) ==
    \/ StartsWith(request.url.pathname, ScopePrefix)
    \/ /\ request.referer # <<>>
       /\ StartsWith(request.referer[1].pathname, ScopePrefix)

\* C9: a fetch event whose resolved URL is scoped and for which the forward
\* predicate returns false has its default handling suppressed and is
\* answered with a replacement fetch of the unscoped URL; nothing is
\* broadcast and no correlation id is consumed for it.
ScopedPassthroughRefetchesUnscoped ==
    /\ \A e \in DOMAIN events :
           ( /\ ResolvesToScope(events[e].request)
             /\ ~shouldForwardRequestToPHPServer(config, events[e].request,
                                                 UnscopedUrl(events[e].request)) )
           => /\ events[e].prevented
              /\ events[e].pc \in {"cloning", "refetched"}
              /\ events[e].respond = (IF events[e].pc = "cloning" THEN "pending" ELSE "fetch")
              /\ events[e].requestId = 0
              /\ events[e].waiter = 0
              /\ PostsFor(e) = {}
              /\ \A i \in DOMAIN waiters : waiters[i].owner # e
              /\ events[e].pc = "refetched" =>
                     /\ Len(events[e].refetch) = 1
                     /\ ~StartsWith(events[e].refetch[1].url.pathname, ScopePrefix)
                     /\ events[e].refetch[1].url.pathname = PlainPathOf(events[e].request.url)
                     /\ events[e].refetch[1].url.search = events[e].request.url.search
                     /\ events[e].refetch[1].method = events[e].request.method
    /\ Len(issued) = Cardinality(Forwarded)

\* /scope:abc/logo.png was re-fetched as /logo.png while another event was
\* forwarded.
ScopedLogoRefetched ==
    /\ \E e \in DOMAIN events :
           /\ events[e].request.url = ScopedLogoPng
           /\ events[e].pc = "refetched"
           /\ events[e].refetch[1].url.pathname = PathLogoPng
    /\ Forwarded # {}

\* C10: a fetch event that resolves to no scope is left alone: no
\* preventDefault, no respondWith, no broadcast, no listener, no correlation
\* id.
UnscopedRequestIsLeftAlone ==
    /\ \A e \in DOMAIN events :
           ~ResolvesToScope(events[e].request) =>
               /\ events[e].pc = "ignored"
               /\ ~events[e].prevented
               /\ events[e].respond = "none"
               /\ events[e].refetch = <<>>
               /\ events[e].requestId = 0
               /\ events[e].waiter = 0
               /\ PostsFor(e) = {}
               /\ \A i \in DOMAIN waiters : waiters[i].owner # e
    /\ lastRequestId = Cardinality(Forwarded)
    /\ Len(waiters) <= Cardinality(Forwarded)

\* An unscoped /index.php without a referer was left to the browser after
\* another event had been forwarded.
UnscopedIndexIgnored ==
    \E e \in DOMAIN events :
        /\ events[e].request = Request(PlainIndexPhp, <<>>, "GET", "none")
        /\ events[e].pc = "ignored"
        /\ \E f \in DOMAIN events : f < e /\ events[f].requestId # 0

\* the events that took the forward branch
TookForwardBranch == {e \in DOMAIN events :
                         events[e].pc \notin {"ignored", "cloning", "refetched"}}

\* C12: a body-parse failure in the forward branch is never fatal: once
\* parsePost has settled, a forwarded request whose body is JSON (form-data
\* parsing failed) or neither form data nor JSON (both failed) has been given
\* a correlation id and is broadcast, with the JSON document or an empty body
\* as its fields; the executor has not ended without it.
BodyParseFailureIsNotFatal ==
    \A e \in TookForwardBranch :
        (events[e].request.body \in {"json", "text"} /\ events[e].pc # "parsing")
        => /\ events[e].requestId # 0
           /\ ~(events[e].pc = "threw" /\ events[e].waiter = 0)
           /\ \A i \in PostsFor(e) :
                  outbox[i].data.request._POST =
                      (IF events[e].request.body = "json"
                       THEN "json document" ELSE "undefined")

\* C13: a protocol violation in the forward branch ends in a failed fetch:
\* when the reply that matches the event's id carries no `response`, the
\* promise handed to respondWith is rejected once the executor has run to its
\* end: it is not left pending, no success response is returned, and nothing
\* was sent again.
MalformedReplyIsRejected ==
    \A e \in DOMAIN events :
        ( /\ events[e].waiter # 0
          /\ events[e].pc # "awaiting"
          /\ waiters[events[e].waiter].state = "resolved"
          /\ waiters[events[e].waiter].value = Undefined )
        => /\ events[e].respond = "rejected"
           /\ events[e].response = NoResponse
           /\ \A i, j \in PostsFor(e) : outbox[i].to = outbox[j].to => i = j

\* C14: a well-formed reply that carries a server-error status is a
\* successful exchange: the wait resolves and the HTTP response has exactly
\* the reply's statusCode, headers and body; and a forwarded event whose
\* executor ended without a response is one that timed out or whose reply
\* violated the protocol.
OnlyTimeoutOrViolationFails ==
    /\ \A e \in DOMAIN events :
           ( /\ events[e].waiter # 0
             /\ events[e].pc # "awaiting"
             /\ waiters[events[e].waiter].by # <<>>
             /\ waiters[events[e].waiter].by[1].response # Undefined )
           => LET reply == waiters[events[e].waiter].by[1].response
              IN  /\ waiters[events[e].waiter].state = "resolved"
                  /\ events[e].respond = "resolved"
                  /\ events[e].response.status = reply.statusCode
                  /\ events[e].response.headers = reply.headers
                  /\ events[e].response.body = reply.body
    /\ \A e \in TookForwardBranch :
           events[e].pc = "threw" =>
               /\ events[e].waiter # 0
               /\ \/ waiters[events[e].waiter].state = "rejected"
                  \/ waiters[events[e].waiter].value = Undefined

\* the awaitReply calls made for event e
WaitersOf(e) == {i \in DOMAIN waiters : waiters[i].owner = e}

\* C18: there is no automatic retry.  Over every step: an event keeps the one
\* id and the one waiter it was given, is posted at most once to each client,
\* and once its wait was rejected or its executor has ended in an error
\* nothing more is posted and no waiter is created for it; ids are consumed
\* by forwarded events only, one each.
ForwardIsNeverRetried ==
    [][ /\ \A e \in DOMAIN events :
               /\ events[e].requestId # 0 => events'[e].requestId = events[e].requestId
               /\ events[e].waiter # 0 => events'[e].waiter = events[e].waiter
               /\ ( \/ events[e].pc = "threw"
                    \/ /\ events[e].waiter # 0
                       /\ waiters[events[e].waiter].state = "rejected" )
                  => /\ {i \in DOMAIN outbox' : outbox'[i].for = e} = PostsFor(e)
                     /\ {i \in DOMAIN waiters' : waiters'[i].owner = e} = WaitersOf(e)
                     /\ events'[e].pc \in {"threw", events[e].pc}
        /\ \A e \in DOMAIN events' :
               /\ Cardinality({i \in DOMAIN waiters' : waiters'[i].owner = e}) <= 1
               /\ \A i, j \in DOMAIN outbox' :
                      ( /\ outbox'[i].for = e /\ outbox'[j].for = e
                        /\ outbox'[i].to = outbox'[j].to ) => i = j
               /\ \A i \in DOMAIN outbox' :
                      outbox'[i].for = e => outbox'[i].data.requestId = events'[e].requestId
        /\ Len(issued') = Cardinality({e \in DOMAIN events' : events'[e].requestId # 0})
        /\ lastRequestId' = Len(issued')
      ]_vars

\* A forward timed out and ended; the worker went on to answer a later one.
FailedForwardThenAnotherAnswered ==
    \E e, f \in Forwarded :
        /\ events[e].pc = "threw"
        /\ events[e].waiter # 0
        /\ waiters[events[e].waiter].state = "rejected"
        /\ events[f].requestId > events[e].requestId
        /\ events[f].respond = "resolved"

-----------------------------------------------------------------------------
(* Properties of the broadcast (specification SpecBroadcast) *)

\* what holds of the ids and posts of the broadcasts made so far
BroadcastIdsAreFreshAndReturned ==
    /\ \A e, f \in Forwarded : events[e].requestId = events[f].requestId => e = f
    /\ Len(issued) = Cardinality(Forwarded)
    /\ \A e \in DOMAIN events :
           events[e].waiter # 0 => waiters[events[e].waiter].id = events[e].requestId
    /\ \A e \in Forwarded :
           (events[e].pc # "matching" /\ PostsFor(e) = {}) =>
               /\ events[e].respond # "resolved"
               /\ events[e].waiter # 0 => waiters[events[e].waiter].state # "resolved"

\* C15: each broadcast draws exactly one fresh id and posts the message,
\* tagged with that id and otherwise identical, exactly once to every context
\* controlled when the clients are enumerated, whatever its scope, and
\* returns that id; with no context controlled it posts nothing, still
\* returns the id, and the forward cannot be answered.
BroadcastPostsOnceToEveryControlledClient ==
    [][ /\ \A e \in DOMAIN events :
               IF events[e].pc = "matching" /\ events'[e].pc = "posted"
               THEN LET new == SubSeq(outbox', Len(outbox) + 1, Len(outbox'))
                    IN  /\ SubSeq(outbox', 1, Len(outbox)) = outbox
                        /\ Len(new) = Cardinality(controlled)
                        /\ {new[i].to : i \in DOMAIN new} = controlled
                        /\ \A i \in DOMAIN new :
                               /\ new[i].for = e
                               /\ new[i].data.requestId = events[e].requestId
                               /\ new[i].data.type = "HTTPRequest"
                               /\ new[i].data.scope =
                                      getURLScope(ResolvedUrl(events[e].request))
                               /\ new[i].data = new[1].data
                        /\ lastRequestId' = lastRequestId
                        /\ events'[e].requestId = events[e].requestId
               ELSE {i \in DOMAIN outbox' : outbox'[i].for = e} = PostsFor(e)
        /\ \A e \in Forwarded : events'[e].requestId = events[e].requestId
        /\ BroadcastIdsAreFreshAndReturned'
      ]_vars

\* One forward was posted to both pages and answered; after both were
\* closed another was posted to nobody and timed out.
BroadcastToNobodyTimedOut ==
    /\ \E e \in Forwarded :
           /\ PostsFor(e) = {}
           /\ events[e].pc = "threw"
           /\ events[e].waiter # 0
           /\ waiters[events[e].waiter].state = "rejected"
    /\ \E f \in Forwarded :
           /\ Cardinality(PostsFor(f)) = Cardinality(Clients)
           /\ events[f].respond = "resolved"

-----------------------------------------------------------------------------
(* Properties of the messaging module (specification SpecMessaging) *)

\* C3: an awaitReply call settles at most once: it resolves with the
\* response of the first reply for its id dispatched while it waited, or it
\* rejects with the timeout error; never both, never twice.
SettlesExactlyOnce ==
    \A i \in DOMAIN waiters :
        LET w == waiters[i]
        IN  /\ w.resolveCalls + w.rejectCalls <= 1
            /\ (w.state = "pending") =>
                   /\ w.resolveCalls + w.rejectCalls = 0
                   /\ w.seen = <<>>
            /\ (w.state = "resolved") =>
                   /\ w.resolveCalls = 1
                   /\ Len(w.seen) = 1
                   /\ w.seen[1].type = "response"
                   /\ w.seen[1].requestId = w.id
                   /\ w.value = w.seen[1].response
            /\ (w.state = "rejected") =>
                   /\ w.rejectCalls = 1
                   /\ w.error = "Request timed out"
                   /\ w.value = NoValue
                   /\ w.seen = <<>>

\* A call resolved and then reached by a second reply for its id, beside a
\* call that timed out.
ResolvedThenRepliedAgain ==
    /\ \E i \in lateReplies : waiters[i].state = "resolved"
    /\ \E j \in DOMAIN waiters : waiters[j].state = "rejected"

\* C5: a reply carrying id j settles only the waiters for id j: every
\* waiter for another id is left exactly as it was, and a pending waiter for
\* id j resolves with the reply's response.
ReplySettlesOnlyItsWaiter ==
    [][\A data \in InboundMessages(ChannelIds) :
          DeliverToPage(data) =>
              \A i \in DOMAIN waiters :
                  /\ (waiters[i].id # data.requestId) => (waiters'[i] = waiters[i])
                  /\ ( /\ waiters[i].id = data.requestId
                       /\ data.type = "response"
                       /\ waiters[i].state = "pending" )
                     => /\ waiters'[i].state = "resolved"
                        /\ waiters'[i].value = data.response]_vars

\* The waiter for id 2 is resolved while the waiter for id 1, registered
\* first, is still pending with its listener.
SecondResolvedFirstPending ==
    \E i, j \in DOMAIN waiters :
        /\ i < j
        /\ waiters[i].id = 1 /\ waiters[i].state = "pending" /\ waiters[i].listening
        /\ waiters[j].id = 2 /\ waiters[j].state = "resolved"

\* C6: a reply that arrives when every waiter for its id has already settled
\* changes nothing: no waiter is settled or altered, no listener is added or
\* removed; and a waiter created afterwards starts pending.
LateReplyIsDropped ==
    [][ /\ \A data \in InboundMessages(ChannelIds) :
               ( /\ DeliverToPage(data)
                 /\ \A i \in DOMAIN waiters :
                        (waiters[i].id = data.requestId) => Settled(waiters[i]) )
               => waiters' = waiters
        /\ (Len(waiters') > Len(waiters)) =>
               /\ waiters'[Len(waiters')].state = "pending"
               /\ waiters'[Len(waiters')].value = NoValue
               /\ SubSeq(waiters', 1, Len(waiters)) = waiters ]_vars

\* A reply reached a waiter that had timed out, and a waiter for the same id
\* created after it is pending.
LateReplyAfterTimeout ==
    \E i \in lateReplies :
        /\ waiters[i].state = "rejected"
        /\ \E j \in DOMAIN waiters :
               /\ j > i
               /\ waiters[j].id = waiters[i].id
               /\ waiters[j].state = "pending"

\* the ids handed out
IssuedIds == {issued[i] : i \in DOMAIN issued}

\* C7: the correlation ids handed out in one context are strictly
\* increasing, hence never reused, however postMessageExpectReply calls and
\* broadcast draws interleave; a posted message carries the id handed out
\* for it.
IdsStrictlyIncrease ==
    /\ \A i, j \in DOMAIN issued : (i < j) => (issued[i] < issued[j])
    /\ Cardinality(IssuedIds) = Len(issued)
    /\ \A k \in DOMAIN outbox : outbox[k].data.requestId \in IssuedIds
    /\ \A k, l \in DOMAIN outbox :
           (k < l) => (outbox[k].data.requestId < outbox[l].data.requestId)

\* Sends and broadcast draws interleaved: the latest id was posted by a
\* send, and some earlier id was drawn without a send.
DrawBetweenSends ==
    /\ Len(issued) >= 2
    /\ \E k \in DOMAIN outbox : outbox[k].data.requestId = Len(issued)
    /\ Len(outbox) < Len(issued)

-----------------------------------------------------------------------------
(* Properties of the pure functions (specification SpecFunctions) *)

\* the text between "/scope:" and the next "/" of a path that starts with
\* "/scope:"
LeadingToken(pathname) ==
    LET rest == SubSeq(pathname, Len(ScopePrefix) + 1, Len(pathname))
        stops == {i \in 1..Len(rest) : rest[i] = "/"}
        end == IF stops = {} THEN Len(rest) + 1
               ELSE CHOOSE i \in stops : \A j \in stops : i <= j
    IN  SubSeq(rest, 1, end - 1)

\* C11: scope resolution of a fetch event.  A scoped request URL keeps its
\* own token whatever the referer says; an unscoped URL adopts the token of a
\* referer that is present, parses as a URL and is scoped; with the referer
\* absent, unparsable or unscoped the request is unscoped and the listener
\* returns without acting.
ScopeResolvedFromUrlThenReferer ==
    probe.fn = "fetch" =>
        LET pathname == probe.request.url.pathname
            header == probe.header
            urlScoped == StartsWith(pathname, ScopePrefix)
            refererScoped == StartsWith(header, Origin \o ScopePrefix)
        IN  /\ urlScoped =>
                  /\ probe.scope = LeadingToken(pathname)
                  /\ probe.url = probe.request.url
            /\ (~urlScoped /\ refererScoped) =>
                  /\ probe.scope =
                        LeadingToken(SubSeq(header, Len(Origin) + 1, Len(header)))
                  /\ StartsWith(probe.url.pathname, ScopePrefix)
                  /\ probe.unscopedUrl = probe.request.url
                  /\ probe.branch # "ignore"
            /\ (~urlScoped /\ ~refererScoped) =>
                  /\ probe.scope = Null
                  /\ probe.url = probe.request.url
                  /\ probe.branch = "ignore"

\* /scope:abc/index.php requested from a page of scope xyz: resolved to abc.
ScopedUrlWithOtherReferer ==
    /\ probe.fn = "fetch"
    /\ probe.request.url.pathname = ScopePrefix \o TokenAbc \o PathIndexPhp
    /\ probe.header = Origin \o ScopePrefix \o TokenXyz \o PathRoot
    /\ probe.scope = TokenAbc

\* the three conditions of the default predicate, read off the characters
EndsInDotPhp(path) ==
    /\ Len(path) >= 4
    /\ path[Len(path) - 3] = "." /\ path[Len(path) - 2] = "p"
    /\ path[Len(path) - 1] = "h" /\ path[Len(path)] = "p"

ContainsDotPhpSlash(path) ==
    \E i \in 1..(Len(path) - 4) :
        /\ path[i] = "." /\ path[i + 1] = "p" /\ path[i + 2] = "h"
        /\ path[i + 3] = "p" /\ path[i + 4] = "/"

FinalSegmentHasNoDot(path) ==
    \A i \in 1..Len(path) :
        path[i] = "." => \E j \in (i + 1)..Len(path) : path[j] = "/"

PathIndexPhpExtraSegment ==
    <<"/", "i", "n", "d", "e", "x", ".", "p", "h", "p",
      "/", "e", "x", "t", "r", "a", "/", "s", "e", "g", "m", "e", "n", "t">>
PathBlogSlash == <<"/", "b", "l", "o", "g", "/">>
PathStyleCss == <<"/", "s", "t", "y", "l", "e", ".", "c", "s", "s">>
PathIndexHtml == <<"/", "i", "n", "d", "e", "x", ".", "h", "t", "m", "l">>
PathIndexHtmlFooBar ==
    <<"/", "i", "n", "d", "e", "x", ".", "h", "t", "m", "l",
      "/", "f", "o", "o", "/", "b", "a", "r">>
PathIndexPhpStyleCss ==
    <<"/", "i", "n", "d", "e", "x", ".", "p", "h", "p",
      "/", "s", "t", "y", "l", "e", ".", "c", "s", "s">>

\* C16: the default predicate is true of a path exactly when the path ends
\* with ".php", or contains ".php/", or its final segment contains no dot;
\* /index.php, /index.php/extra/segment, / and /blog/ are forwarded,
\* /style.css is not.
DefaultPredicateFollowsItsRule ==
    probe.fn = "seemsLikeAPHPServerPath" =>
        /\ probe.result <=> \/ EndsInDotPhp(probe.path)
                            \/ ContainsDotPhpSlash(probe.path)
                            \/ FinalSegmentHasNoDot(probe.path)
        /\ probe.path \in {PathIndexPhp, PathIndexPhpExtraSegment, PathRoot,
                           PathBlogSlash} => probe.result
        /\ probe.path = PathStyleCss => ~probe.result

\* A script followed by a segment that has an extension: forwarded.
ScriptThenDottedSegmentForwarded ==
    /\ probe.fn = "seemsLikeAPHPServerPath"
    /\ probe.path = PathIndexPhpStyleCss
    /\ probe.result

\* C17: seemsLikeAPHPServerPath is false for a path in which a file name that
\* is not a PHP file is followed by further segments, as for the file name
\* alone: false for /index.html/foo/bar and for /index.html.
HtmlPathsAreNotServerPaths ==
    (probe.fn = "seemsLikeAPHPServerPath"
        /\ probe.path \in {PathIndexHtml, PathIndexHtmlFooBar})
    => ~probe.result

\* C20 as stated: for every URL u and token t, removeScope(setScope(u, t))
\* is u and getScope(setScope(u, t)) is t; removeScope is the identity on an
\* unscoped URL.
CodecRoundTripOnEveryUrl ==
    /\ probe.fn = "setURLScope" =>
           /\ probe.removed = <<probe.url>>
           /\ probe.read = <<probe.scope>>
    /\ (probe.fn = "removeURLScope" /\ ~StartsWith(probe.url.pathname, ScopePrefix))
       => probe.result = probe.url

\* C20, amended: the round trip holds for every URL u that is not scoped
\* already and every token t without a path separator, the empty token and
\* tokens with a colon included: setScope(u, t) has the leading segment
\* scope:<t>, removeScope(setScope(u, t)) is u, query included, and
\* getScope(setScope(u, t)) is t; removeScope is the identity on an unscoped
\* URL.
CodecRoundTripOnUnscopedUrls ==
    /\ (probe.fn = "setURLScope" /\ ~StartsWith(probe.url.pathname, ScopePrefix)) =>
           /\ Len(probe.result) = 1
           /\ StartsWith(probe.result[1].pathname,
                         ScopePrefix \o probe.scope \o <<Slash>>)
           /\ probe.result[1].search = probe.url.search
           /\ probe.removed = <<probe.url>>
           /\ probe.read = <<probe.scope>>
    /\ (probe.fn = "removeURLScope" /\ ~StartsWith(probe.url.pathname, ScopePrefix))
       => probe.result = probe.url

\* /index.php?p=1 scoped with the token a:b, read back and unscoped again.
ColonTokenScopedAndBack ==
    /\ probe.fn = "setURLScope"
    /\ probe.url = PlainIndexPhp
    /\ probe.scope = TokenWithColon
    /\ probe.result[1].pathname = ScopePrefix \o TokenWithColon \o PathIndexPhp
    /\ probe.removed = <<PlainIndexPhp>>
    /\ probe.read = <<TokenWithColon>>

-----------------------------------------------------------------------------
(* The forward decision under an injected predicate (specification Spec) *)

\* C19: an injected shouldForwardRequestToPHPServer replaces the default
\* heuristic: a request that resolves to a scope is forwarded exactly when
\* the injected predicate (here: the method is POST) is true of it, whatever
\* its path; the rule on the unscoped path decides only when no predicate was
\* supplied.
InjectedPredicateDecidesAlone ==
    \A e \in DOMAIN events :
        ResolvesToScope(events[e].request) =>
            LET request == events[e].request
                forwarded == events[e].pc \notin {"ignored", "cloning", "refetched"}
                path == PlainPathOf(request.url)
                byDefault == \/ EndsInDotPhp(path)
                             \/ ContainsDotPhpSlash(path)
                             \/ FinalSegmentHasNoDot(path)
            IN  /\ events[e].prevented
                /\ config = "postOnly" => (forwarded <=> request.method = "POST")
                /\ config = "default" => (forwarded <=> byDefault)

\* Under the injected predicate GET /scope:abc/index.php was passed through
\* and a POST of /logo.png was forwarded and answered.
PredicateOverrodeTheDefaultBothWays ==
    /\ config = "postOnly"
    /\ \E e \in DOMAIN events :
           /\ events[e].request = Request(ScopedIndexPhp, <<>>, "GET", "none")
           /\ events[e].pc = "refetched"
    /\ \E f \in DOMAIN events :
           /\ events[f].request.url = PlainLogoPng
           /\ events[f].request.method = "POST"
           /\ events[f].respond = "resolved"

-----------------------------------------------------------------------------
(* The pending entries of the gateway (specification Spec) *)

\* C21: a pending entry (a registered waiter) is created when the request has
\* been sent and is destroyed exactly once, by the matching reply or by the
\* timeout, whichever comes first; at no time are two live entries registered
\* for one correlation id.
AtMostOneLiveEntryPerId ==
    /\ \A i, j \in DOMAIN waiters :
           ( /\ waiters[i].listening /\ waiters[j].listening
             /\ waiters[i].id = waiters[j].id ) => i = j
    /\ \A i \in DOMAIN waiters :
           /\ waiters[i].resolveCalls + waiters[i].rejectCalls <= 1
           /\ waiters[i].listening <=> (waiters[i].resolveCalls + waiters[i].rejectCalls = 0)
           /\ waiters[i].state = "resolved" <=> waiters[i].resolveCalls = 1
           /\ waiters[i].state = "rejected" <=> waiters[i].rejectCalls = 1
           /\ waiters[i].owner \in DOMAIN events
           /\ events[waiters[i].owner].waiter = i
           /\ PostsFor(waiters[i].owner) # {}
    /\ \A e \in DOMAIN events :
           events[e].pc \in {"awaiting", "answered"} =>
               /\ events[e].waiter \in DOMAIN waiters
               /\ waiters[events[e].waiter].id = events[e].requestId

\* One entry was destroyed by its reply, the other by its timeout.
OneEntryRepliedOneTimedOut ==
    \E i, j \in DOMAIN waiters :
        /\ waiters[i].state = "resolved" /\ ~waiters[i].listening
        /\ waiters[j].state = "rejected" /\ ~waiters[j].listening
        /\ waiters[i].id # waiters[j].id

-----------------------------------------------------------------------------
(* Activation (specification Spec) *)

\* C22: on the activate event the worker claims every existing page, so that
\* fetch events of pages loaded before the activation reach the fetch
\* listener without a reload, and a broadcast made afterwards is posted to
\* every one of those pages; before the activation no page is controlled and
\* no fetch event has been handled.
ActivationClaimsEveryPage ==
    /\ activated => controlled = Clients
    /\ ~activated => (controlled = {} /\ events = <<>> /\ outbox = <<>>)
    /\ \A e \in DOMAIN events :
           events[e].pc \in {"posted", "awaiting", "answered"} =>
               {outbox[i].to : i \in PostsFor(e)} = Clients

\* After the activation a request of a page was forwarded, posted to both
\* pages that existed before it, and answered.
PreloadedPagesServedAfterActivation ==
    /\ activated
    /\ \E e \in DOMAIN events :
           /\ {outbox[i].to : i \in PostsFor(e)} = Clients
           /\ events[e].respond = "resolved"
           /\ events[e].response.status = 200

-----------------------------------------------------------------------------
(* Unscoped requests and adopted scopes (specification Spec) *)

\* C23: a fetch event that resolves to no scope is never forwarded, whatever
\* the forward predicate would say of it, and the predicate is not called for
\* it; every message the worker broadcasts carries a scope token.
OnlyScopedRequestsAreBroadcast ==
    /\ \A i \in DOMAIN outbox :
           outbox[i].for # 0 =>
               /\ outbox[i].data.scope # Null
               /\ outbox[i].data.scope \in {TokenAbc, TokenXyz}
               /\ ResolvesToScope(events[outbox[i].for].request)
    /\ \A e \in DOMAIN events :
           ~ResolvesToScope(events[e].request) =>
               /\ events[e].asked = <<>>
               /\ events[e].pc = "ignored"
               /\ events[e].requestId = 0
               /\ ~events[e].prevented
    /\ \A e \in DOMAIN events :
           ResolvesToScope(events[e].request) => Len(events[e].asked) = 1

\* Under the default predicate an unscoped /index.php, a path the predicate
\* accepts, was left to the browser, while a scoped request was broadcast.
UnscopedScriptNotForwarded ==
    /\ config = "default"
    /\ \E e \in DOMAIN events :
           /\ events[e].request = Request(PlainIndexPhp, <<>>, "GET", "none")
           /\ FinalSegmentHasNoDot(events[e].request.url.pathname)
              \/ EndsInDotPhp(events[e].request.url.pathname)
           /\ events[e].pc = "ignored"
           /\ events[e].asked = <<>>
    /\ \E i \in DOMAIN outbox : outbox[i].for # 0 /\ outbox[i].data.scope = TokenAbc

\* C24: when the request URL is unscoped and the scope comes from a scoped
\* referer, the unscoped URL handed to the forward predicate, and used for
\* the replacement fetch, is the original request URL; if the predicate is
\* false the default handling is suppressed all the same and the event is
\* answered by a re-issued fetch of that URL.
AdoptedScopePassesTheOriginalUrl ==
    \A e \in DOMAIN events :
        LET request == events[e].request
            adopted == /\ ~StartsWith(request.url.pathname, ScopePrefix)
                       /\ request.referer # <<>>
                       /\ StartsWith(request.referer[1].pathname, ScopePrefix)
            refused == IF config = "postOnly" THEN request.method # "POST"
                       ELSE ~( \/ EndsInDotPhp(request.url.pathname)
                               \/ ContainsDotPhpSlash(request.url.pathname)
                               \/ FinalSegmentHasNoDot(request.url.pathname) )
        IN  adopted =>
                /\ events[e].asked = <<request.url>>
                /\ events[e].prevented
                /\ events[e].respond # "none"
                /\ refused =>
                       /\ events[e].pc \in {"cloning", "refetched"}
                       /\ events[e].requestId = 0
                       /\ events[e].pc = "refetched" =>
                              /\ events[e].respond = "fetch"
                              /\ Len(events[e].refetch) = 1
                              /\ events[e].refetch[1].url = request.url
                              /\ events[e].refetch[1].method = request.method

\* A POST of /logo.png from a page of scope xyz, refused by the default
\* predicate, was re-issued for /logo.png.
AdoptedScopeRefetchedOriginal ==
    /\ config = "default"
    /\ \E e \in DOMAIN events :
           /\ events[e].request = Request(PlainLogoPng, <<RefererScoped>>, "POST", "form")
           /\ events[e].prevented
           /\ events[e].pc = "refetched"
           /\ events[e].refetch[1].url = PlainLogoPng

-----------------------------------------------------------------------------
(* Broadcast first, subscribe afterwards (specification SpecBroadcast) *)

\* C25: no reply is lost to a subscription race.  Although the worker posts
\* the broadcast before it calls awaitReply, no reply to a broadcast is
\* dispatched on the worker's channel before the listener for its id is
\* registered; a reply dispatched while the wait is pending resolves it, and
\* a wait ends unanswered only by its timeout.
NoReplyBeforeSubscription ==
    /\ unheard = {}
    /\ \A e \in Forwarded :
           /\ (PostsFor(e) # {} /\ events[e].waiter = 0) => events[e].pc = "posted"
           /\ events[e].waiter # 0 =>
                  LET w == waiters[events[e].waiter]
                  IN  /\ w.id = events[e].requestId
                      /\ w.seen # <<>> =>
                             /\ w.state = "resolved"
                             /\ w.by = w.seen
                             /\ w.value = ResponseOk
                      /\ w.state = "rejected" => (w.seen = <<>> /\ w.rejectCalls = 1)

\* A reply resolved the wait of one event while the broadcast of another had
\* been posted and its listener was not registered yet.
RepliedWhileAnotherWasPosted ==
    \E e, f \in Forwarded :
        /\ events[e].waiter # 0
        /\ waiters[events[e].waiter].state = "resolved"
        /\ PostsFor(f) # {}
        /\ events[f].pc = "posted"
        /\ events[f].waiter = 0

-----------------------------------------------------------------------------
(* The ids attached to messages (specification SpecMessaging) *)

\* `if (event.data.requestId)` on the receiving side: a number is truthy
\* unless it is 0
Truthy(number) == number # 0

\* C26: every requestId attached by postMessageExpectReply is a positive
\* integer, the first id issued being 1 and never 0, so that a receiver that
\* tests `if (event.data.requestId)` finds the id present in every message
\* sent expecting a reply.
SentIdsArePositive ==
    /\ \A i \in DOMAIN outbox :
           outbox[i].for = 0 =>
               /\ outbox[i].data.requestId \in Nat
               /\ outbox[i].data.requestId >= 1
               /\ Truthy(outbox[i].data.requestId)
    /\ issued # <<>> => issued[1] = 1
    /\ \A i \in DOMAIN issued : issued[i] >= 1

\* The first message sent carries the id 1, and a second one was sent.
FirstMessageCarriesIdOne ==
    /\ Len(outbox) = 2
    /\ outbox[1].for = 0
    /\ outbox[1].data.requestId = 1
    /\ Truthy(outbox[2].data.requestId)

-----------------------------------------------------------------------------
(* Properties of startPHP and PHP.run (specification SpecPHP) *)

\* what has happened so far while the runtime loads
Happened(what) == what \in {php.order[i] : i \in DOMAIN php.order}

\* C28: the PHP instance is constructed only after the runtime-initialized
\* callback has fired and, when data dependency modules were given, the
\* monitor has reported 0 dependencies left, in whichever order the two
\* happen; once they have happened (the second alone when no data module was
\* given) nothing else is waited for: startPHP is constructing or is about to.
StartPHPWaitsForTheLoadingSequence ==
    /\ php.pc = "ready" =>
           /\ Happened("runtime")
           /\ php.modules > 0 => Happened("dependencies")
    /\ (php.pc # "none" /\ php.modules = 0 /\ Happened("runtime")) =>
           php.pc = "ready" \/ PHPContinuationQueued(php)
    /\ (php.pc # "none" /\ Happened("runtime") /\ Happened("dependencies")) =>
           php.pc = "ready" \/ PHPContinuationQueued(php)

\* Data modules were given, the runtime was initialized before the monitor
\* reported 0, and the instance was constructed after both.
ConstructedAfterRuntimeThenDependencies ==
    /\ php.pc = "ready"
    /\ php.modules > 0
    /\ php.order = <<"runtime", "dependencies">>

\* what the runtime printed on stdout while the last run call lasted
PrintedOnStdout == php.last.printed.stdout \o php.last.afterwards.stdout

\* what the runtime printed on stderr while the last run call lasted
PrintedOnStderr == php.last.printed.stderr \o php.last.afterwards.stderr

\* C27: the stdout and the stderr a run returns hold exactly what the runtime
\* printed during that run, the stream buffers are empty after every run, and
\* the stderr array an earlier run returned is not changed by a later run.
RunsAreIsolated ==
    (php.pc = "ready" /\ php.last.returned) =>
        /\ php.last.response.stdout = Join(PrintedOnStdout, "\n")
        /\ php.heap[php.last.response.stderr] = PrintedOnStderr
        /\ php.heap[php.stdout] = <<>>
        /\ php.heap[php.stderr] = <<>>
        /\ php.previous.returned =>
               php.heap[php.previous.stderr] = php.previous.atReturn

=============================================================================
